---- MODULE Spec2Model ----
(***************************************************************************)
(* Go-TCP-Chat: the server's actor loop (Server.run), the per-connection   *)
(* reader and writer tasks (Client.Read, Client.Write), the command table  *)
(* (joinChannel, leaveChannel, changeName, whisper, ...), the channels and *)
(* the token bucket of Client.Read.                                        *)
(*                                                                         *)
(* A Go string is a sequence of characters.  A fixed piece of server text  *)
(* (a format string's literal part) is one element of such a sequence.     *)
(***************************************************************************)
EXTENDS Integers, Sequences, FiniteSets, TLC

(***************************************************************************)
(* strings                                                                 *)
(***************************************************************************)
IsSpace(ch) == ch \in {" ", "\n", "\t", "\r"}

RECURSIVE TrimLeft(_)
TrimLeft(s) ==
    IF s = <<>> THEN s
    ELSE IF IsSpace(Head(s)) THEN TrimLeft(Tail(s)) ELSE s

RECURSIVE TrimRight(_)
TrimRight(s) ==
    IF s = <<>> THEN s
    ELSE IF IsSpace(s[Len(s)]) THEN TrimRight(SubSeq(s, 1, Len(s) - 1)) ELSE s

\* strings.TrimSpace
TrimSpace(s) == TrimRight(TrimLeft(s))

\* strings.Contains(s, ch) for a one-character ch
Contains(s, ch) == \E i \in 1..Len(s) : s[i] = ch

\* strings.SplitN(s, " ", 2)[0]: what precedes the first blank
RECURSIVE FirstPart(_)
FirstPart(s) ==
    IF s = <<>> THEN s
    ELSE IF Head(s) = " " THEN <<>> ELSE <<Head(s)>> \o FirstPart(Tail(s))

\* strings.HasPrefix
HasPrefix(s, p) == Len(s) >= Len(p) /\ SubSeq(s, 1, Len(p)) = p

\* the first field of a string that starts with a non-blank
RECURSIVE FirstField(_)
FirstField(s) ==
    IF s = <<>> THEN s
    ELSE IF IsSpace(Head(s)) THEN <<>> ELSE <<Head(s)>> \o FirstField(Tail(s))

\* strings.Fields: the maximal runs of non-blank characters
RECURSIVE Fields(_)
Fields(s) ==
    LET t == TrimLeft(s)
        f == FirstField(t)
    IN  IF t = <<>> THEN <<>>
        ELSE <<f>> \o Fields(SubSeq(t, Len(f) + 1, Len(t)))

\* strings.Join(args, " ")
RECURSIVE Join(_)
Join(args) ==
    IF args = <<>> THEN <<>>
    ELSE IF Len(args) = 1 THEN args[1]
    ELSE args[1] \o <<" ">> \o Join(Tail(args))

\* n copies of ch
RECURSIVE Repeat(_, _)
Repeat(ch, n) == IF n = 0 THEN <<>> ELSE <<ch>> \o Repeat(ch, n - 1)

\* the place of the first ch in s
IndexOf(s, ch) == CHOOSE i \in 1..Len(s) : s[i] = ch /\ \A j \in 1..(i - 1) : s[j] # ch

\* a split at every separator
RECURSIVE SplitN_All(_, _, _)
SplitN_All(s, ch, n) ==
    IF ~Contains(s, ch) THEN <<s>>
    ELSE <<SubSeq(s, 1, IndexOf(s, ch) - 1)>>
            \o SplitN_All(SubSeq(s, IndexOf(s, ch) + 1, Len(s)), ch, n - 1)

\* strings.SplitN(s, ch, n) for n > 0: at most n parts, the last one unsplit
RECURSIVE SplitN(_, _, _)
SplitN(s, ch, n) ==
    IF n = 1 \/ ~Contains(s, ch) THEN <<s>>
    ELSE <<SubSeq(s, 1, IndexOf(s, ch) - 1)>>
            \o SplitN(SubSeq(s, IndexOf(s, ch) + 1, Len(s)), ch, n - 1)

\* formatMessage: an empty sender id or name is rendered "."
formatMessage(senderID, senderName, content) ==
    (IF senderID = <<>> THEN <<".">> ELSE senderID) \o <<"|">>
        \o (IF senderName = <<>> THEN <<".">> ELSE senderName) \o <<"|">>
        \o content

(***************************************************************************)
(* program constants and the bounds of the model                           *)
(***************************************************************************)
\* capacity of a client's send channel (make(chan string, 1024))
SendCap == 1024
\* capacity of the server's broadcast channel (make(chan Message, 1024))
BroadcastCap == 1024
\* joinChannel: maxPasswordLength
maxPasswordLength == 32
\* longest username changeUsername accepts
maxUsernameLength == 32

\* the readers and the actor take a step only while fewer than MaxPending
\* frames wait in the clients' send channels
MaxPending == 1
\* a step adds to the broadcast channel only while fewer than MaxBroadcast
\* messages wait in it
MaxBroadcast == 1
\* the frames that wait in a send channel when the lines are about the order
\* of the frames
MaxQueue == 3
\* the longest sender id, sender name, content and payload of the frames
\* that are encoded and decoded
MaxLen == 2
\* Channel objects that can be live at once
MaxChannels == 3
\* the connections made when the lines are about channels or passwords
MaxFew == 2
\* the largest bucket, the largest rate (in tokens per RateDen seconds) and
\* the last tick of the clock
MaxBucket == 3
MaxRate == 3
MaxTime == 6
\* the payloads framed for one client
MaxFrames == 2
\* time is counted in ticks, and the rate in tokens per RateDen seconds
TicksPerSecond == 2
RateDen == 2
\* NewClient leaves lastRequest at the zero time, long before any line
Long == 1000000

\* the connections the listener accepts, each accepted once
Sessions == {1, 2, 3}

Nil == 0

\* conn.RemoteAddr().String(): the peer address of a connection
IP(c) == <<"h", <<"1", "2", "3">>[c]>>

\* the identity a Client carries in frames and in a Channel's member map; it
\* is also the key Server.run registers the client under
ID(c) == IP(c)

\* the name NewClient is given
Anonymous == <<"A", "n", "o", "n", "y", "m", "o", "u", "s">>

\* the name of the server in frames
ServerName == <<"S", "e", "r", "v", "e", "r">>

rateLimitMessages ==
    << "Please slow down your messages.",
       "You're sending messages too quickly.",
       "Take a moment before sending another message.",
       "Easy there! Let's keep the chat friendly.",
       "Whoa! Let's give others a chance to speak.",
       "Let's keep the conversation flowing smoothly.",
       "Let's take a breather before the next message.",
       "Let's keep the chat enjoyable for everyone." >>

(***************************************************************************)
(* the lines clients send                                                  *)
(***************************************************************************)
Line(s) == s \o <<"\n">>

JOIN == <<"/", "j", "o", "i", "n">>
NAME == <<"/", "n", "a", "m", "e">>
WHISPER == <<"/", "w", "h", "i", "s", "p", "e", "r">>

\* lines about names: valid and taken usernames, a username that is the peer
\* address of connection 3, renames and whispers
NameRegLines ==
    { Line(<<"a">>), Line(IP(3)),
      Line(<<" ", "a", " ", "x">>),
      Line(<<>>),
      Line(Repeat("c", maxUsernameLength + 1)),
      Line(Anonymous \o <<"1">>),
      Line(<<"a", "|", "b">>) }

NameLines ==
    { Line(<<"h", "i">>),
      Line(NAME \o <<" ", "a">>),
      Line(NAME \o <<" ">> \o IP(3)),
      Line(WHISPER \o <<" ", "a", " ", "y", "o">>),
      Line(WHISPER \o <<" ">> \o IP(3) \o <<" ", "y", "o">>),
      Line(WHISPER \o <<" ">> \o IP(2) \o <<" ", "y", "o">>),
      Line(<<"/", "c", "l", "i", "e", "n", "t", "s">>) }

\* the username the user of connection c picks when the lines are about
\* channels
OwnName(c) == <<<<"a">>, <<"b">>, <<"c">>>>[c]

\* lines about the members of a channel
MemberLines ==
    { Line(<<"h", "i">>),
      Line(JOIN \o <<" ", "r">>),
      Line(WHISPER \o <<" ", "a", " ", "y", "o">>) }

\* lines about channels r and q
ChannelLines ==
    { Line(<<"h", "i">>),
      Line(JOIN \o <<" ", "r">>),
      Line(JOIN \o <<" ", "q">>),
      Line(<<"/", "l", "e", "a", "v", "e">>),
      Line(<<"/", "m", "e", "m", "b", "e", "r", "s">>),
      Line(<<"/", "c", "h", "a", "n", "n", "e", "l", "s">>) }

\* lines about the password of channel q: p, x or none
PasswordLines ==
    { Line(<<"h", "i">>),
      Line(JOIN \o <<" ", "q">>),
      Line(JOIN \o <<" ", "q", " ", "p">>),
      Line(JOIN \o <<" ", "q", " ", "x">>),
      Line(<<"/", "l", "e", "a", "v", "e">>),
      Line(<<"/", "c", "h", "a", "n", "n", "e", "l", "s">>) }

\* lines that are answered the same way whatever the others do
OtherLines ==
    { Line(<<"a", "|", "b">>),
      Line(<<"/">>),
      Line(<<"/", "n", "o">>),
      Line(JOIN),
      Line(JOIN \o <<" ", "q", " ">> \o Repeat("c", maxPasswordLength + 1)),
      Line(NAME),
      Line(NAME \o <<" ">> \o Anonymous),
      Line(NAME \o <<" ">> \o Repeat("c", maxUsernameLength + 1)),
      Line(WHISPER \o <<" ", "a">>),
      Line(<<"/", "h", "e", "l", "p">>) }

\* the lines of a user who sends faster than its connection is written to
SlowLines == { Line(<<"a", "|", "b">>) }

\* lines that are answered by different notices, before and after the
\* username is set
FifoRegLines == { Line(<<"a", "|", "b">>), Line(<<>>), Line(<<"a">>) }
FifoLines == { Line(<<"a", "|", "b">>), Line(<<"h", "i">>), Line(<<"/">>) }

\* the lines of a user who floods its channel
FloodLines ==
    { Line(<<"h", "i">>),
      Line(JOIN \o <<" ", "r">>),
      Line(<<"/", "l", "e", "a", "v", "e">>) }

\* the lines of users who change their names while they talk in a channel
RenameLines ==
    { Line(<<"h", "i">>),
      Line(JOIN \o <<" ", "r">>),
      Line(NAME \o <<" ", "z">>) }

\* first lines: commands, blanks and a tab inside the line
FirstLines ==
    { Line(JOIN \o <<" ", "r">>),
      Line(<<" ", "a", " ", "x">>),
      Line(<<"a", "\t", "x">>),
      Line(<<"h", "i">>),
      Line(<<"/">>) }

\* lines about an open channel r and a channel q with the password p
RoomLines ==
    { Line(<<"a", "|", "b">>),
      Line(<<"/">>),
      Line(JOIN \o <<" ", "r">>),
      Line(JOIN \o <<" ", "q", " ", "p">>),
      Line(JOIN \o <<" ", "q", " ", "x">>),
      Line(<<"h", "i">>) }

\* one line of every kind
BasicLines ==
    { Line(<<"a", "|", "b">>),
      Line(<<"/">>),
      Line(JOIN \o <<" ", "r">>),
      Line(<<"h", "i">>) }

(***************************************************************************)
(* state                                                                   *)
(***************************************************************************)
VARIABLES
    clients,      \* Server.clients: registry key -> client
    channels,     \* Server.channels: channel name -> Channel object
    heap,         \* the Channel objects: [Name, password, members]
    broadcast,    \* Server.broadcast: the queued Messages
    panicked,     \* the process died of a run-time panic
    actorStuck,   \* Server.run is blocked sending on its own broadcast channel
    Username,     \* Client.Username
    registered,   \* Client.registered
    channel,      \* Client.channel: a Channel object or Nil
    send,         \* Client.send: the queued frames
    sendClosed,   \* Client.send has been closed
    conn,         \* Client.conn: "none", "open", "closed"
    rd,           \* where Client.Read stands
    username,     \* Client.Read's local username (the name it proposed)
    response,     \* what the server answered on UsernameChange.Response
    wr,           \* where Client.Write stands
    bucket,       \* Client.bucket
    lastRequest,  \* Client.lastRequest, in ticks
    now,          \* time.Now(), in ticks
    limited,      \* whether the last line read was rate limited
    maxBucketSize,\* Client.maxBucketSize
    bucketRate,   \* Client.bucketRate, in tokens per RateDen seconds
    listener,     \* Server.Start's listener: "open" or "closed"
    inbound,      \* the client program: the payload its listener reads
    mode          \* what the users' lines are about

srvVars == <<clients, channels, heap, broadcast, panicked, actorStuck>>
cliVars == <<Username, registered, channel, send, sendClosed, conn>>
taskVars == <<rd, username, response, wr>>
bucketVars == <<bucket, lastRequest, now, limited, maxBucketSize, bucketRate>>
envVars == <<listener, inbound, mode>>
vars == <<srvVars, cliVars, taskVars, bucketVars, envVars>>

\* the part of the state the server's handlers read and write
S == [ clients |-> clients, channels |-> channels, heap |-> heap,
       broadcast |-> broadcast, panicked |-> panicked, actorStuck |-> actorStuck,
       Username |-> Username, registered |-> registered, channel |-> channel,
       send |-> send, sendClosed |-> sendClosed, conn |-> conn,
       rd |-> rd, username |-> username, response |-> response, wr |-> wr ]

(***************************************************************************)
(* maps, and the Channel objects                                           *)
(***************************************************************************)
MapPut(m, k, v) == [x \in DOMAIN m \cup {k} |-> IF x = k THEN v ELSE m[x]]
MapDel(m, k) == [x \in DOMAIN m \ {k} |-> m[x]]
Range(f) == {f[x] : x \in DOMAIN f}

Digits == <<"0", "1", "2", "3", "4", "5", "6", "7", "8", "9">>

\* fmt's %d
RECURSIVE Itoa(_)
Itoa(n) == IF n < 10 THEN <<Digits[n + 1]>> ELSE Itoa(n \div 10) \o <<Digits[(n % 10) + 1]>>

\* the elements of a set in some order (Go ranges over a map in an
\* unspecified order; no property here reads the order of a listing)
RECURSIVE Ordered(_)
Ordered(set) ==
    IF set = {} THEN <<>>
    ELSE LET m == CHOOSE x \in set : TRUE
         IN  <<m>> \o Ordered(set \ {m})

\* the Client objects something still refers to: their tasks run, or the
\* registry or a channel holds them
LiveClients(st) ==
    {c \in Sessions : st.rd[c] # "done"}
        \cup Range(st.clients)
        \cup UNION {st.heap[o].members : o \in DOMAIN st.heap}

\* Go's garbage collector: a Client or a Channel nothing refers to is gone
Collect(st) ==
    LET lc == LiveClients(st)
        lo == Range(st.channels) \cup {st.channel[c] : c \in lc}
                \cup {st.broadcast[i].Channel : i \in 1..Len(st.broadcast)}
    IN  [st EXCEPT
            !.heap = [o \in DOMAIN st.heap \cap lo |-> st.heap[o]],
            !.Username = [c \in Sessions |-> IF c \in lc THEN @[c] ELSE <<>>],
            !.registered = [c \in Sessions |-> c \in lc /\ @[c]],
            !.channel = [c \in Sessions |-> IF c \in lc THEN @[c] ELSE Nil]]

\* NewChannel, at the first free place of the heap
NewChannel(st, name, password) ==
    LET free == (1..(MaxChannels + 1)) \ DOMAIN st.heap
        o == CHOOSE x \in free : \A y \in free : x <= y
    IN  [st EXCEPT
            !.heap = MapPut(@, o, [Name |-> name, password |-> password, members |-> {}]),
            !.channels = MapPut(@, name, o)]

\* Channel.RequiresPassword
RequiresPassword(st, o) == st.heap[o].password # <<>>

\* Channel.AddMember without its password check
AddMemberErr_Open(st, o, password) == "nil"

\* Channel.AddMember's check: the error it returns, or "nil"
AddMemberErr(st, o, password) ==
    IF st.heap[o].password # <<>> /\ st.heap[o].password # password
    THEN "incorrect password" ELSE "nil"

\* the handler in progress does not go on: the process panicked, or the
\* actor is blocked for good
Halted(st) == st.panicked \/ st.actorStuck

\* Channel.AddMember when it adds
AddMember(st, o, c) ==
    IF Halted(st) THEN st ELSE [st EXCEPT !.heap[o].members = @ \cup {c}]

\* a RemoveMember that leaves the client in the member map
RemoveMember_Stays(st, o, c) == st

\* Channel.RemoveMember
RemoveMember(st, o, c) ==
    IF Halted(st) THEN st ELSE [st EXCEPT !.heap[o].members = @ \ {c}]

\* Client.SetChannel
SetChannel(st, c, o) ==
    IF Halted(st) THEN st ELSE [st EXCEPT !.channel[c] = o]

\* an emptied channel left in server.channels
DeleteIfEmpty_Never(st, o) == st

\* if len(ch.members) == 0 { delete(server.channels, ch.Name) }
DeleteIfEmpty(st, o) ==
    IF Halted(st) \/ st.heap[o].members # {} THEN st
    ELSE [st EXCEPT !.channels = MapDel(@, st.heap[o].Name)]

(***************************************************************************)
(* queues                                                                  *)
(***************************************************************************)
\* a send that puts the message on the queue though the queue is full
SendMessage_Overrun(st, c, msg) ==
    IF st.panicked \/ st.actorStuck THEN st
    ELSE IF st.sendClosed[c] THEN [st EXCEPT !.panicked = TRUE]
    ELSE [st EXCEPT !.send[c] = Append(@, msg)]

\* Client.SendMessage: a non-blocking send; on a full queue the message is
\* dropped and the connection closed; a send on a closed channel panics
SendMessage(st, c, msg) ==
    IF st.panicked \/ st.actorStuck THEN st
    ELSE IF st.sendClosed[c] THEN [st EXCEPT !.panicked = TRUE]
    ELSE IF Len(st.send[c]) < SendCap THEN [st EXCEPT !.send[c] = Append(@, msg)]
    ELSE [st EXCEPT !.conn[c] = "closed"]

\* the Message Server.broadcastMessage builds
Message(st, c, o, content, isServerMsg) ==
    [ SenderName |-> st.Username[c], SenderID |-> ID(c), Channel |-> o,
      Content |-> content, IsServerMsg |-> isServerMsg ]

\* Server.broadcastMessage called by the actor itself: a blocking send on
\* the channel only the actor drains. The Message is built from
\* client.Username and client.ID: a nil client is a nil pointer dereference
broadcastMessage(st, c, o, content, isServerMsg) ==
    IF st.panicked \/ st.actorStuck THEN st
    ELSE IF c = Nil THEN [st EXCEPT !.panicked = TRUE]
    ELSE IF Len(st.broadcast) >= BroadcastCap THEN [st EXCEPT !.actorStuck = TRUE]
    ELSE [st EXCEPT !.broadcast = Append(@, Message(st, c, o, content, isServerMsg))]

\* a notice of the server to one client: formatMessage("Server", text)
Notice(text) == formatMessage(<<>>, ServerName, text)

\* a reply without a sender: formatMessage("", text)
Plain(text) == formatMessage(<<>>, <<>>, text)

HasLeft(name) == name \o <<" has left the channel.">>
HasJoined(name) == name \o <<" has joined the channel.">>

(***************************************************************************)
(* the command table                                                       *)
(***************************************************************************)
joinChannel(args, c, st) ==
    IF Len(args) < 1
    THEN SendMessage(st, c, Notice(<<"Usage: /join <channel_name> [password]">>))
    ELSE
    LET password == IF Len(args) > 1 THEN args[2] ELSE <<>>
    IN
    IF Len(password) > maxPasswordLength
    THEN SendMessage(st, c, Notice(<<"Password is too long. Maximum length is ">>
                                    \o Itoa(maxPasswordLength) \o <<" characters.">>))
    ELSE
    LET channelName == args[1]
        s1 == IF channelName \in DOMAIN st.channels THEN st
              ELSE NewChannel(st, channelName, password)
        o == s1.channels[channelName]
        joinedChannel == s1.channel[c]
        s2 == IF joinedChannel = Nil THEN s1
              ELSE DeleteIfEmpty(
                     broadcastMessage(RemoveMember(s1, joinedChannel, c), c,
                         joinedChannel, HasLeft(s1.Username[c]), TRUE),
                     joinedChannel)
    IN
    IF RequiresPassword(s2, o) /\ password = <<>>
    THEN SendMessage(s2, c, Notice(<<"Channel '">> \o channelName
                                    \o <<"' requires a password.">>))
    ELSE IF AddMemberErr(s2, o, password) # "nil"
    THEN SendMessage(s2, c, Notice(<<"Incorrect password for channel '">>
                                    \o channelName \o <<"'">>))
    ELSE
    LET s3 == SetChannel(AddMember(s2, o, c), c, o)
        s4 == SendMessage(s3, c, Notice(<<"You have joined channel '">>
                                         \o s3.heap[o].Name \o <<"'">>))
    IN  broadcastMessage(s4, c, o, HasJoined(s4.Username[c]), TRUE)

leaveChannel(args, c, st) ==
    LET joinedChannel == st.channel[c]
    IN
    IF joinedChannel = Nil
    THEN SendMessage(st, c, Notice(<<"You are not in any channel.">>))
    ELSE
    LET s1 == RemoveMember(st, joinedChannel, c)
        s2 == broadcastMessage(s1, c, joinedChannel, HasLeft(s1.Username[c]), TRUE)
        s3 == SetChannel(DeleteIfEmpty(s2, joinedChannel), c, Nil)
    IN  SendMessage(s3, c, Notice(<<"You have left channel '">>
                                   \o st.heap[joinedChannel].Name \o <<"'">>))

connectedClients(args, c, st) ==
    SendMessage(st, c, Notice(<<"Connected clients (">>
                               \o Itoa(Cardinality(DOMAIN st.clients)) \o <<")">>))

\* the names of the members, joined by ", "
RECURSIVE MemberNames(_, _)
MemberNames(st, ms) ==
    IF ms = <<>> THEN <<>>
    ELSE IF Len(ms) = 1 THEN st.Username[ms[1]]
    ELSE st.Username[ms[1]] \o <<", ">> \o MemberNames(st, Tail(ms))

channelMembers(args, c, st) ==
    LET joinedChannel == st.channel[c]
    IN
    IF joinedChannel = Nil
    THEN SendMessage(st, c, Plain(<<"You are not in any channel.">>))
    ELSE SendMessage(st, c, Plain(<<"Members in channel '">> \o st.heap[joinedChannel].Name
            \o <<"': \n">> \o MemberNames(st, Ordered(st.heap[joinedChannel].members))))

\* name (count) of every registered channel, joined by newlines
RECURSIVE ChannelNames(_, _)
ChannelNames(st, ns) ==
    IF ns = <<>> THEN <<>>
    ELSE LET one == ns[1] \o <<" (">>
                    \o Itoa(Cardinality(st.heap[st.channels[ns[1]]].members)) \o <<")">>
         IN  IF Len(ns) = 1 THEN one ELSE one \o <<"\n">> \o ChannelNames(st, Tail(ns))

listChannels(args, c, st) ==
    IF DOMAIN st.channels = {}
    THEN SendMessage(st, c, Plain(<<"No channels available.">>))
    ELSE SendMessage(st, c, Plain(<<"Available channels: \n">>
                                   \o ChannelNames(st, Ordered(DOMAIN st.channels))))

\* the prefix of the names the server itself hands out
ReservedPrefix == Anonymous

\* Server.changeUsername's verdict: "nil" or the error
changeUsernameErr(st, c, newUsername) ==
    LET n == TrimSpace(newUsername)
    IN  IF n = <<>> THEN "username cannot be empty"
        ELSE IF Len(n) > maxUsernameLength THEN "username is too long"
        ELSE IF HasPrefix(n, ReservedPrefix) THEN "username is reserved"
        ELSE IF n \in DOMAIN st.clients /\ st.clients[n] # c
             THEN "username is already taken"
        ELSE "nil"

\* Server.changeUsername: on success the registry entry moves from oldKey to
\* the new name and the client takes the name; on failure nothing changes
changeUsername(st, c, oldKey, newUsername) ==
    IF Halted(st) \/ changeUsernameErr(st, c, newUsername) # "nil" THEN st
    ELSE [st EXCEPT !.clients = MapPut(MapDel(@, oldKey), TrimSpace(newUsername), c),
                    !.Username[c] = TrimSpace(newUsername)]

\* changeName handing the peer address to changeUsername as the old key
changeName_OldKey(args, c, st) ==
    IF Len(args) < 1
    THEN SendMessage(st, c, Notice(<<"Usage: /name <new_username>">>))
    ELSE
    LET newName == args[1]
        err == changeUsernameErr(st, c, newName)
    IN  IF err # "nil"
        THEN SendMessage(st, c, Notice(<<"Failed to change username: ", err>>))
        ELSE SendMessage(changeUsername(st, c, IP(c), newName), c,
                 Notice(<<"Your username has been changed to '">> \o newName \o <<"'">>))

changeName(args, c, st) ==
    IF Len(args) < 1
    THEN SendMessage(st, c, Notice(<<"Usage: /name <new_username>">>))
    ELSE
    LET newName == args[1]
        oldUsername == st.Username[c]
        err == changeUsernameErr(st, c, newName)
    IN  IF err # "nil"
        THEN SendMessage(st, c, Notice(<<"Failed to change username: ", err>>))
        ELSE SendMessage(changeUsername(st, c, oldUsername, newName), c,
                 Notice(<<"Your username has been changed to '">> \o newName \o <<"'">>))

whisper(args, c, st) ==
    IF Len(args) < 2
    THEN SendMessage(st, c, Notice(<<"Usage: /whisper <username> <message>">>))
    ELSE
    LET targetUsername == args[1]
        message == Join(Tail(args))
    IN
    IF targetUsername \notin DOMAIN st.clients
    THEN SendMessage(st, c, Notice(<<"User '">> \o targetUsername
                                    \o <<"' not found or not registered.">>))
    ELSE IF st.Username[c] = targetUsername
    THEN SendMessage(st, c, Notice(<<"You cannot whisper to yourself.">>))
    ELSE IF ~st.registered[st.clients[targetUsername]]
    THEN SendMessage(st, c, Notice(<<"User '">> \o targetUsername
                                    \o <<"' is not available.">>))
    ELSE SendMessage(
             SendMessage(st, st.clients[targetUsername],
                 formatMessage(<<>>, <<"DM from ">> \o st.Username[c], message)),
             c, Notice(<<"Whisper sent to '">> \o targetUsername \o <<"'">>))

help(args, c, st) == SendMessage(st, c, Plain(<<"Available commands: ...">>))

\* Server.run, case cmd := <-s.command
Command(name, args, c, st) ==
    CASE name = <<"j", "o", "i", "n">> -> joinChannel(args, c, st)
      [] name = <<"l", "e", "a", "v", "e">> -> leaveChannel(args, c, st)
      [] name = <<"c", "l", "i", "e", "n", "t", "s">> -> connectedClients(args, c, st)
      [] name = <<"m", "e", "m", "b", "e", "r", "s">> -> channelMembers(args, c, st)
      [] name = <<"c", "h", "a", "n", "n", "e", "l", "s">> -> listChannels(args, c, st)
      [] name = <<"n", "a", "m", "e">> -> changeName(args, c, st)
      [] name = <<"w", "h", "i", "s", "p", "e", "r">> -> whisper(args, c, st)
      [] name = <<"h", "e", "l", "p">> -> help(args, c, st)
      [] OTHER -> SendMessage(st, c, formatMessage(<<>>, ServerName,
                      <<"[Server]: Unknown command. Type /help for a list of commands.">>))

(***************************************************************************)
(* Server.run: the events of the actor                                     *)
(***************************************************************************)
\* the key a client holds in the registry: its peer address until it has
\* registered, its username afterwards
KeyOf(st, c) == IF st.registered[c] THEN st.Username[c] ELSE IP(c)

\* case client := <-s.register
register(st, c) == [st EXCEPT !.clients = MapPut(@, ID(c), c)]

\* close(client.send); closing a closed channel panics
CloseSend(st, c) ==
    IF Halted(st) THEN st
    ELSE IF st.sendClosed[c] THEN [st EXCEPT !.panicked = TRUE]
    ELSE [st EXCEPT !.sendClosed[c] = TRUE]

\* an unregister case that leaves the registry as it is
DeleteClient_Keep(st, key) == st

\* delete(s.clients, key)
DeleteClient(st, key) ==
    IF Halted(st) THEN st ELSE [st EXCEPT !.clients = MapDel(@, key)]

\* an unregister case that leaves the client in its channel's member map
unregister_StaysMember(st, c) == CloseSend(DeleteClient(st, KeyOf(st, c)), c)

\* case client := <-s.unregister
unregister(st, c) ==
    LET clientChannel == st.channel[c]
        s1 == IF clientChannel = Nil THEN st
              ELSE DeleteIfEmpty(
                     broadcastMessage(RemoveMember(st, clientChannel, c), c,
                         clientChannel, HasLeft(st.Username[c]), TRUE),
                     clientChannel)
    IN  CloseSend(DeleteClient(s1, KeyOf(s1, c)), c)

\* SendMessage(msg) to each client of a sequence, in turn
RECURSIVE SendAll(_, _, _)
SendAll(st, cs, msg) ==
    IF cs = <<>> THEN st ELSE SendAll(SendMessage(st, cs[1], msg), Tail(cs), msg)

\* the fan-out without the test on the sender
Recipients_All(st, msg) ==
    IF msg.Channel = Nil THEN Range(st.clients) ELSE st.heap[msg.Channel].members

\* the clients a queued Message goes to: everyone in the registry, or the
\* members of its channel, but for the sender
Recipients(st, msg) ==
    IF msg.Channel = Nil
    THEN {x \in Range(st.clients) : msg.SenderID # ID(x)}
    ELSE {x \in st.heap[msg.Channel].members : msg.SenderID # ID(x)}

\* the frame every recipient of a queued Message gets
FrameOf(msg) ==
    IF msg.IsServerMsg THEN formatMessage(<<>>, ServerName, msg.Content)
    ELSE formatMessage(msg.SenderID, msg.SenderName, msg.Content)

\* case msg := <-s.broadcast
fanout(st, msg) == SendAll(st, Ordered(Recipients(st, msg)), FrameOf(msg))

\* case change := <-s.setUsername: the answer goes back on change.Response
setUsername(st, c, oldKey, newUsername) == changeUsername(st, c, oldKey, newUsername)

(***************************************************************************)
(* Client.Read: what it makes of a line                                    *)
(***************************************************************************)
\* the name Client.Read proposes for a first line
ProposedName(msg) ==
    LET t == TrimSpace(msg)
    IN  IF Contains(t, " ") THEN FirstPart(t) ELSE t

\* strings.CutPrefix(strings.TrimSpace(msg), "/")
IsCommandLine(msg) == HasPrefix(TrimSpace(msg), <<"/">>)
CommandArgs(msg) == Fields(Tail(TrimSpace(msg)))

\* a reader without the test for '|'
Parse_NoPipeTest(msg) ==
    [ pipe |-> FALSE,
      name |-> ProposedName(msg),
      text |-> TrimSpace(msg),
      isCommand |-> IsCommandLine(msg),
      args |-> IF IsCommandLine(msg) THEN CommandArgs(msg) ELSE <<>> ]

\* what Client.Read computes from a line
Parse(msg) ==
    [ pipe |-> Contains(msg, "|"),
      name |-> ProposedName(msg),
      text |-> TrimSpace(msg),
      isCommand |-> IsCommandLine(msg),
      args |-> IF IsCommandLine(msg) THEN CommandArgs(msg) ELSE <<>> ]

\* the lines, read. What the users' lines are about is fixed from the start:
\* names, the members of a channel, channels, passwords, or lines that are
\* answered the same way whatever the others do. The first lines of a user
\* are usernames.
Modes == {"names", "members", "channels", "passwords", "other"}
NameRegInputs == {Parse(msg) : msg \in NameRegLines}
OwnInputs == [c \in Sessions |-> {Parse(Line(OwnName(c)))}]
NameInputs == {Parse(msg) : msg \in NameLines}
MemberInputs == {Parse(msg) : msg \in MemberLines}
ChannelInputs == {Parse(msg) : msg \in ChannelLines}
PasswordInputs == {Parse(msg) : msg \in PasswordLines}
OtherInputs == {Parse(msg) : msg \in OtherLines}
SlowInputs == {Parse(msg) : msg \in SlowLines}
FifoRegInputs == {Parse(msg) : msg \in FifoRegLines}
FifoInputs == {Parse(msg) : msg \in FifoLines}
FloodInputs == {Parse(msg) : msg \in FloodLines}
RenameInputs == {Parse(msg) : msg \in RenameLines}

FirstInputs == {Parse(msg) : msg \in FirstLines}

RoomInputs == {Parse(msg) : msg \in RoomLines}

BasicInputs == {Parse(msg) : msg \in BasicLines}
RegInputs(c) ==
    CASE mode = "names" -> NameRegInputs
      [] mode = "slow" -> SlowInputs
      [] mode = "fifo" -> FifoRegInputs
      [] mode = "first" -> FirstInputs
      [] OTHER -> OwnInputs[c]
ChatInputs(c) ==
    CASE mode = "names" -> NameInputs
      [] mode = "members" -> MemberInputs
      [] mode = "channels" -> ChannelInputs
      [] mode = "passwords" -> PasswordInputs
      [] mode = "fifo" -> FifoInputs
      [] mode = "flood" -> FloodInputs
      [] mode = "basic" -> BasicInputs
      [] mode = "rename" -> RenameInputs
      [] mode = "rooms" -> RoomInputs
      [] mode \in {"first", "write"} -> BasicInputs
      [] OTHER -> OtherInputs
\* the connections that are made: all of them, MaxFew of them, or one
Users ==
    CASE mode \in {"names", "members"} -> Sessions
      [] mode \in {"slow", "fifo", "flood", "write"} -> {1}
      [] OTHER -> 1..MaxFew
Inputs(c) == IF registered[c] THEN ChatInputs(c) ELSE RegInputs(c)

\* a reader that marks its client registered whatever the answer
AfterResponse_Registers(st, c) ==
    IF st.response[c] # "nil"
    THEN SendMessage([st EXCEPT !.registered[c] = TRUE], c,
             Notice(<<"Failed to set username: ", st.response[c]>>))
    ELSE SendMessage([st EXCEPT !.registered[c] = TRUE], c,
             Notice(<<"Your username has been set to '">> \o st.username[c]
                    \o <<"'. Use /join <channel_name> to join a channel.">>))

\* Client.Read after <-response
AfterResponse(st, c) ==
    IF st.response[c] # "nil"
    THEN SendMessage(st, c, Notice(<<"Failed to set username: ", st.response[c]>>))
    ELSE SendMessage([st EXCEPT !.registered[c] = TRUE], c,
             Notice(<<"Your username has been set to '">> \o st.username[c]
                    \o <<"'. Use /join <channel_name> to join a channel.">>))

(***************************************************************************)
(* actions                                                                 *)
(***************************************************************************)
\* the state after a step
Set(st) ==
    LET t == Collect(st)
    IN  /\ \/ Len(t.broadcast) <= Len(broadcast)
           \/ Len(broadcast) < MaxBroadcast
           \/ /\ mode = "flood"
              /\ t.broadcast # <<>>
              /\ ~t.broadcast[Len(t.broadcast)].IsServerMsg
        /\ clients' = t.clients
        /\ channels' = t.channels
        /\ heap' = t.heap
        /\ broadcast' = t.broadcast
        /\ panicked' = t.panicked
        /\ actorStuck' = t.actorStuck
        /\ Username' = t.Username
        /\ registered' = t.registered
        /\ channel' = t.channel
        /\ send' = t.send
        /\ sendClosed' = t.sendClosed
        /\ conn' = t.conn
        /\ rd' = t.rd
        /\ username' = t.username
        /\ response' = t.response
        /\ wr' = t.wr
        /\ UNCHANGED <<bucketVars, envVars>>

\* frames waiting in the send channels
RECURSIVE SumLen(_, _)
SumLen(q, cs) ==
    IF cs = {} THEN 0
    ELSE LET x == CHOOSE y \in cs : TRUE IN Len(q[x]) + SumLen(q, cs \ {x})

Pending == SumLen(send, Sessions)

\* the frames that may wait: MaxPending, or a whole send channel and one more
\* when the user is faster than its writer
PendingBound ==
    CASE mode = "slow" -> SendCap + 1
      [] mode \in {"fifo", "write"} -> MaxQueue
      [] OTHER -> MaxPending

Running == ~panicked /\ Pending < PendingBound
\* the actor is at its select
ActorReady == ~panicked /\ ~actorStuck /\ Pending < PendingBound

\* listener.Accept, NewClient, s.register <- client, and the actor's
\* register case, which starts the client's reader and writer
Register(c) ==
    /\ ActorReady
    /\ listener = "open"
    /\ rd[c] = "none"
    /\ c \in Users
    /\ Set([register(S, c) EXCEPT !.conn[c] = "open", !.rd[c] = "read", !.wr[c] = "loop"])

\* a reader that takes its client out of the registry itself
ReadError_Deletes(c) ==
    /\ Running
    /\ rd[c] = "read"
    /\ Set(DeleteClient([S EXCEPT !.rd[c] = "exit"], ID(c)))

\* Client.Read: ReadString fails (the peer closed, a reset, the deadline);
\* the deferred function is entered
ReadError(c) ==
    /\ Running
    /\ rd[c] = "read"
    /\ Set([S EXCEPT !.rd[c] = "exit"])

\* the deferred function of Client.Read: c.server.unregister <- c, taken by
\* the actor's unregister case, and c.conn.Close()
Unregister(c) ==
    /\ ActorReady
    /\ rd[c] = "exit"
    /\ Set([unregister(S, c) EXCEPT !.rd[c] = "done", !.conn[c] = "closed"])

\* Client.Read: a line with a '|'
ReadPipe(c) ==
    /\ rd[c] = "read"
    /\ Running
    /\ \E ln \in Inputs(c) :
       /\ ln.pipe
       /\ Set(SendMessage(S, c,
              Notice(<<"Malformed message. Please avoid using the '|' character.">>)))

\* Client.Read of a client that is not registered: the line is a username;
\* the request goes to the actor, which answers on Response
ReadUsername(c) ==
    /\ rd[c] = "read"
    /\ ActorReady
    /\ ~registered[c]
    /\ \E ln \in Inputs(c) :
       /\ ~ln.pipe
       /\ Set([setUsername(S, c, IP(c), ln.name) EXCEPT
                  !.response[c] = changeUsernameErr(S, c, ln.name),
                  !.username[c] = ln.name,
                  !.rd[c] = "resp"])

\* Client.Read: the answer is there
ReadResponse(c) ==
    /\ Running
    /\ rd[c] = "resp"
    /\ Set([AfterResponse(S, c) EXCEPT
               !.rd[c] = "read", !.response[c] = "nil", !.username[c] = <<>>])

\* Client.Read: "/" and nothing else
ReadNoCommand(c) ==
    /\ rd[c] = "read"
    /\ Running
    /\ registered[c]
    /\ \E ln \in Inputs(c) :
       /\ ~ln.pipe
       /\ ln.isCommand /\ ln.args = <<>>
       /\ Set(SendMessage(S, c, Notice(<<"No command provided.">>)))

\* Client.Read: c.server.command <- Command{...}, and the actor's command case
ReadCommandLine(c, ln) ==
    /\ ~ln.pipe
    /\ ln.isCommand /\ ln.args # <<>>
    /\ LET st == Command(ln.args[1], Tail(ln.args), c, S)
       IN  /\ DOMAIN st.heap \subseteq 1..MaxChannels
           /\ Set(st)

ReadCommand(c) ==
    /\ rd[c] = "read"
    /\ ActorReady
    /\ registered[c]
    /\ \E ln \in Inputs(c) : ReadCommandLine(c, ln)

\* Client.Read: a message of a client that is in no channel
ReadNoChannel(c) ==
    /\ rd[c] = "read"
    /\ Running
    /\ channel[c] = Nil
    /\ registered[c]
    /\ \E ln \in Inputs(c) :
       /\ ~ln.pipe
       /\ ~ln.isCommand
       /\ Set(SendMessage(S, c,
              Notice(<<"You are not in a channel. Use /join <channel> to join one.">>)))

\* Client.Read: c.server.broadcastMessage(c, channel, msg), a send of the
\* reader on the broadcast channel
ReadMessage(c) ==
    /\ rd[c] = "read"
    /\ Running
    /\ channel[c] # Nil
    /\ Len(broadcast) < BroadcastCap
    /\ registered[c]
    /\ \E ln \in Inputs(c) :
       /\ ~ln.pipe
       /\ ~ln.isCommand
       /\ Set([S EXCEPT !.broadcast =
                  Append(@, Message(S, c, channel[c], ln.text, FALSE))])

\* the actor's broadcast case
Broadcast ==
    /\ ActorReady
    /\ broadcast # <<>>
    /\ Set(fanout([S EXCEPT !.broadcast = Tail(@)], Head(broadcast)))

\* a writer that takes the newest frame of the send channel
Write_Newest(c) ==
    /\ ~panicked
    /\ conn[c] # "none"
    /\ wr[c] = "loop"
    /\ send[c] # <<>>
    /\ Set([S EXCEPT !.send[c] = SubSeq(@, 1, Len(@) - 1)])

\* Client.Write: one message of the send channel is written. The loop ends
\* at a closed and drained channel, and its deferred Close finds the
\* connection closed by the reader
Write(c) ==
    /\ ~panicked
    /\ conn[c] # "none"
    /\ wr[c] = "loop"
    /\ send[c] # <<>>
    /\ Set([S EXCEPT !.send[c] = Tail(@)])

\* Client.Write: a write or a flush fails or runs into its deadline; the
\* message taken from the send channel is lost, the loop is left, and the
\* deferred function closes the connection. The writer sends nothing to the
\* actor
WriteError(c) ==
    /\ ~panicked
    /\ conn[c] # "none"
    /\ wr[c] = "loop"
    /\ send[c] # <<>>
    /\ Set([S EXCEPT !.send[c] = Tail(@), !.wr[c] = "done", !.conn[c] = "closed"])

\* the client program before it has read anything
NoPayload ==
    [ at |-> "off", id |-> <<>>, name |-> <<>>, content |-> <<>>,
      body |-> <<>>, parts |-> <<>> ]

\* NewServer, and Start up to its accept loop; no client yet
NewServer ==
    /\ clients = <<>>
    /\ channels = <<>>
    /\ heap = <<>>
    /\ broadcast = <<>>
    /\ panicked = FALSE
    /\ actorStuck = FALSE
    /\ Username = [c \in Sessions |-> Anonymous]
    /\ registered = [c \in Sessions |-> FALSE]
    /\ channel = [c \in Sessions |-> Nil]
    /\ send = [c \in Sessions |-> <<>>]
    /\ sendClosed = [c \in Sessions |-> FALSE]
    /\ conn = [c \in Sessions |-> "none"]
    /\ rd = [c \in Sessions |-> "none"]
    /\ username = [c \in Sessions |-> <<>>]
    /\ response = [c \in Sessions |-> "nil"]
    /\ wr = [c \in Sessions |-> "none"]
    /\ bucket = 0
    /\ lastRequest = 0 - Long
    /\ now = 0
    /\ limited = FALSE
    /\ maxBucketSize = MaxBucket
    /\ bucketRate = MaxRate
    /\ listener = "open"

Init == NewServer /\ inbound = NoPayload /\ mode \in Modes

Next ==
    \/ \E c \in Sessions : Register(c)
    \/ \E c \in Sessions : ReadError(c)
    \/ \E c \in Sessions : Unregister(c)
    \/ \E c \in Sessions : ReadPipe(c)
    \/ \E c \in Sessions : ReadUsername(c)
    \/ \E c \in Sessions : ReadResponse(c)
    \/ \E c \in Sessions : ReadNoCommand(c)
    \/ \E c \in Sessions : ReadCommand(c)
    \/ \E c \in Sessions : ReadNoChannel(c)
    \/ \E c \in Sessions : ReadMessage(c)
    \/ Broadcast
    \/ \E c \in Sessions : Write(c)

Spec == Init /\ [][Next]_vars

(***************************************************************************)
(* the interrupt or termination signal                                     *)
(***************************************************************************)
\* Server.Start after <-c: listener.Close(), then
\* s.broadcastMessage(nil, nil, "Server is shutting down. Disconnecting...", true),
\* which panics in Start's goroutine before close(s.shutdown) and s.wg.Wait()
Signal ==
    /\ ~panicked
    /\ listener = "open"
    /\ listener' = "closed"
    /\ LET t == broadcastMessage(S, Nil, Nil,
                   <<"Server is shutting down. Disconnecting...">>, TRUE)
       IN  /\ panicked' = t.panicked
           /\ broadcast' = t.broadcast
           /\ actorStuck' = t.actorStuck
    /\ UNCHANGED <<clients, channels, heap, cliVars, taskVars, bucketVars, inbound, mode>>

InitDown == NewServer /\ inbound = NoPayload /\ mode = "basic"

NextDown == Next \/ Signal

\* the process does not stop while one of its tasks can take a step
SpecDown == InitDown /\ [][NextDown]_vars /\ WF_vars(NextDown)

(***************************************************************************)
(* a client that sends lines faster than its connection is written to      *)
(***************************************************************************)
InitSlow == NewServer /\ inbound = NoPayload /\ mode = "slow"

NextSlow ==
    \/ \E c \in Sessions : Register(c)
    \/ \E c \in Sessions : ReadPipe(c)
    \/ \E c \in Sessions : ReadError(c)
    \/ \E c \in Sessions : Unregister(c)
    \/ \E c \in Sessions : Write(c)

SpecSlow == InitSlow /\ [][NextSlow]_vars

(***************************************************************************)
(* the frame: formatMessage, and the listener of the client program        *)
(***************************************************************************)
Chars == {"u", "|"}
Strings == UNION {[1..n -> Chars] : n \in 0..MaxLen}
SenderIDs == Strings \cup {<<"u", "1">>}
SenderNames == Strings \cup {<<"A", "l", "i", "c", "e">>}
Contents == Strings \cup {<<"h", "e", "l", "l", "o">>}

\* a sender id, a sender name and a content, not yet a payload
InitCodec ==
    /\ NewServer
    /\ mode = "codec"
    /\ inbound \in [ at : {"new"}, id : SenderIDs, name : SenderNames,
                      content : Contents, body : {<<>>}, parts : {<<>>} ]

\* the server makes the payload with formatMessage
Encode ==
    /\ inbound.at = "new"
    /\ inbound' = [inbound EXCEPT !.at = "framed",
                       !.body = formatMessage(inbound.id, inbound.name, inbound.content)]
    /\ UNCHANGED <<srvVars, cliVars, taskVars, bucketVars, listener, mode>>

\* a payload that formatMessage did not make
Garbled ==
    /\ inbound.at = "new"
    /\ \E b \in Strings : inbound' = [inbound EXCEPT !.at = "raw", !.body = b]
    /\ UNCHANGED <<srvVars, cliVars, taskVars, bucketVars, listener, mode>>

\* listener: the payload does not split into three parts and is skipped;
\* the loop goes on
ListenerSkip ==
    /\ inbound.at \in {"framed", "raw"}
    /\ Len(SplitN(inbound.body, "|", 3)) # 3
    /\ inbound' = [inbound EXCEPT !.at = "skipped"]
    /\ UNCHANGED <<srvVars, cliVars, taskVars, bucketVars, listener, mode>>

\* listener: the three parts go to the program as a Message
ListenerSend ==
    /\ inbound.at \in {"framed", "raw"}
    /\ Len(SplitN(inbound.body, "|", 3)) = 3
    /\ inbound' = [inbound EXCEPT !.at = "sent", !.parts = SplitN(inbound.body, "|", 3)]
    /\ UNCHANGED <<srvVars, cliVars, taskVars, bucketVars, listener, mode>>

NextCodec == Encode \/ Garbled \/ ListenerSkip \/ ListenerSend

SpecCodec == InitCodec /\ [][NextCodec]_vars

(***************************************************************************)
(* a client with several frames in its send channel                        *)
(***************************************************************************)
InitFifo == NewServer /\ inbound = NoPayload /\ mode = "fifo"

NextFifo ==
    \/ \E c \in Sessions : Register(c)
    \/ \E c \in Sessions : ReadError(c)
    \/ \E c \in Sessions : Unregister(c)
    \/ \E c \in Sessions : ReadPipe(c)
    \/ \E c \in Sessions : ReadUsername(c)
    \/ \E c \in Sessions : ReadResponse(c)
    \/ \E c \in Sessions : ReadNoCommand(c)
    \/ \E c \in Sessions : ReadNoChannel(c)
    \/ \E c \in Sessions : Write(c)

SpecFifo == InitFifo /\ [][NextFifo]_vars

(***************************************************************************)
(* a client that sends messages faster than the actor takes them           *)
(***************************************************************************)
InitFlood == NewServer /\ inbound = NoPayload /\ mode = "flood"

NextFlood ==
    \/ \E c \in Sessions : Register(c)
    \/ \E c \in Sessions : ReadError(c)
    \/ \E c \in Sessions : Unregister(c)
    \/ \E c \in Sessions : ReadUsername(c)
    \/ \E c \in Sessions : ReadResponse(c)
    \/ \E c \in Sessions : ReadCommand(c)
    \/ \E c \in Sessions : ReadNoChannel(c)
    \/ \E c \in Sessions : ReadMessage(c)
    \/ Broadcast
    \/ \E c \in Sessions : Write(c)

SpecFlood == InitFlood /\ [][NextFlood]_vars

(***************************************************************************)
(* users who change their names while they talk in a channel               *)
(***************************************************************************)
InitRename == NewServer /\ inbound = NoPayload /\ mode = "rename"

NextRename ==
    \/ \E c \in Sessions : Register(c)
    \/ \E c \in Sessions : ReadError(c)
    \/ \E c \in Sessions : Unregister(c)
    \/ \E c \in Sessions : ReadUsername(c)
    \/ \E c \in Sessions : ReadResponse(c)
    \/ \E c \in Sessions : ReadCommand(c)
    \/ \E c \in Sessions : ReadNoChannel(c)
    \/ \E c \in Sessions : ReadMessage(c)
    \/ Broadcast
    \/ \E c \in Sessions : Write(c)

SpecRename == InitRename /\ [][NextRename]_vars

(***************************************************************************)
(* users whose first lines are commands, messages and names with blanks    *)
(***************************************************************************)
InitFirst == NewServer /\ inbound = NoPayload /\ mode = "first"

SpecFirst == InitFirst /\ [][Next]_vars

(***************************************************************************)
(* connections whose writes fail                                           *)
(***************************************************************************)
InitWrite == NewServer /\ inbound = NoPayload /\ mode = "write"

NextWrite == Next \/ \E c \in Sessions : WriteError(c)

SpecWrite == InitWrite /\ [][NextWrite]_vars

\* a write fails on the connection of a client that floods its channel
\* faster than the actor takes its messages
NextWriteFlood ==
    \/ \E c \in Sessions : Register(c)
    \/ \E c \in Sessions : ReadError(c)
    \/ \E c \in Sessions : Unregister(c)
    \/ \E c \in Sessions : ReadUsername(c)
    \/ \E c \in Sessions : ReadResponse(c)
    \/ \E c \in Sessions : ReadCommand(c)
    \/ \E c \in Sessions : ReadNoChannel(c)
    \/ \E c \in Sessions : ReadMessage(c)
    \/ \E c \in Sessions : Write(c)
    \/ \E c \in Sessions : WriteError(c)

SpecWriteFlood == InitFlood /\ [][NextWriteFlood]_vars

(***************************************************************************)
(* users who go from an open channel to one with a password                *)
(***************************************************************************)
InitRooms == NewServer /\ inbound = NoPayload /\ mode = "rooms"

SpecRooms == InitRooms /\ [][Next]_vars

(***************************************************************************)
(* the token bucket of one client                                          *)
(***************************************************************************)
Min(a, b) == IF a <= b THEN a ELSE b

\* a refill that is not held at the size of the bucket
Refill_Unbounded ==
    LET elapsed == now - lastRequest
        den == TicksPerSecond * RateDen
    IN  (bucket * den + elapsed * bucketRate) \div den

\* c.bucket after the refill: elapsed is now.Sub(c.lastRequest).Seconds(),
\* tokens is elapsed * c.bucketRate, and int() drops the fraction of
\* math.Min(float64(c.bucket)+tokens, float64(c.maxBucketSize))
Refill ==
    LET elapsed == now - lastRequest
        den == TicksPerSecond * RateDen
    IN  Min((bucket * den + elapsed * bucketRate) \div den, maxBucketSize)

\* time passes
Tick ==
    /\ now < MaxTime
    /\ now' = now + 1
    /\ UNCHANGED <<srvVars, cliVars, taskVars, envVars, bucket, lastRequest, limited,
                   maxBucketSize, bucketRate>>

\* a rate limited line that costs a token all the same
ReadLimited_Takes(c, i) ==
    /\ rd[c] = "read"
    /\ Running
    /\ Refill <= 0
    /\ LET t == SendMessage(S, c,
                   Notice(<<"You are being rate limited. ", rateLimitMessages[i]>>))
       IN  /\ send' = t.send
           /\ conn' = t.conn
           /\ panicked' = t.panicked
    /\ bucket' = Refill - 1
    /\ lastRequest' = now
    /\ limited' = TRUE
    /\ UNCHANGED <<clients, channels, heap, broadcast, actorStuck, Username, registered,
                   channel, sendClosed, taskVars, envVars, now, maxBucketSize, bucketRate>>

\* Client.Read: a line is read and the bucket is empty after the refill
ReadLimited(c, i) ==
    /\ rd[c] = "read"
    /\ Running
    /\ Refill <= 0
    /\ LET t == SendMessage(S, c,
                   Notice(<<"You are being rate limited. ", rateLimitMessages[i]>>))
       IN  /\ send' = t.send
           /\ conn' = t.conn
           /\ panicked' = t.panicked
    /\ bucket' = Refill
    /\ lastRequest' = now
    /\ limited' = TRUE
    /\ UNCHANGED <<clients, channels, heap, broadcast, actorStuck, Username, registered,
                   channel, sendClosed, taskVars, envVars, now, maxBucketSize, bucketRate>>

\* Client.Read: a line is read and costs one token; what is done with the
\* line is Next's
ReadAccepted(c) ==
    /\ rd[c] = "read"
    /\ Running
    /\ Refill > 0
    /\ bucket' = Refill - 1
    /\ lastRequest' = now
    /\ limited' = FALSE
    /\ UNCHANGED <<srvVars, cliVars, taskVars, envVars, now, maxBucketSize, bucketRate>>

\* one client, connected, with a bucket of some size and some rate
InitBucket ==
    /\ clients = MapPut(<<>>, ID(1), 1)
    /\ channels = <<>>
    /\ heap = <<>>
    /\ broadcast = <<>>
    /\ panicked = FALSE
    /\ actorStuck = FALSE
    /\ Username = [c \in Sessions |-> Anonymous]
    /\ registered = [c \in Sessions |-> FALSE]
    /\ channel = [c \in Sessions |-> Nil]
    /\ send = [c \in Sessions |-> <<>>]
    /\ sendClosed = [c \in Sessions |-> FALSE]
    /\ conn = [c \in Sessions |-> IF c = 1 THEN "open" ELSE "none"]
    /\ rd = [c \in Sessions |-> IF c = 1 THEN "read" ELSE "none"]
    /\ username = [c \in Sessions |-> <<>>]
    /\ response = [c \in Sessions |-> "nil"]
    /\ wr = [c \in Sessions |-> IF c = 1 THEN "loop" ELSE "none"]
    /\ mode = "other"
    /\ listener = "open"
    /\ inbound = NoPayload
    /\ bucket = 0
    /\ lastRequest = 0 - Long
    /\ now = 0
    /\ limited = FALSE
    /\ maxBucketSize \in 1..MaxBucket
    /\ bucketRate \in 1..MaxRate

NextBucket ==
    \/ Tick
    \/ \E i \in 1..Len(rateLimitMessages) : ReadLimited(1, i)
    \/ ReadAccepted(1)
    \/ Write(1)

SpecBucket == InitBucket /\ [][NextBucket]_vars

(***************************************************************************)
(* the byte stream: Client.Write frames the payloads, the listener of the  *)
(* client program reads them back. A payload is a string, a sequence of    *)
(* bytes; the connection stays open                                        *)
(***************************************************************************)
\* at most MaxFrames payloads wait in the send channel: the bytes of
\* "u|u|u", of "||" and of "u||u", as formatMessage makes them
InitStream ==
    /\ NewServer
    /\ mode = "stream"
    /\ LET msgs == { <<117, 124, 117, 124, 117>>, <<124, 124>>, <<117, 124, 124, 117>> }
       IN  inbound \in [ at : {"header"},
                         queue : UNION {[1..k -> msgs] : k \in 1..MaxFrames},
                         framed : {<<>>}, wire : {<<>>}, msgSize : {0},
                         got : {<<>>} ]

\* Client.Write, one msg of c.send: the header is the length of msg in four
\* bytes, the lowest first; header and msg go to the connection. framed
\* keeps the payloads written so far
WriteFrame ==
    /\ inbound.at \in {"header", "body"}
    /\ inbound.queue # <<>>
    /\ LET msg == Head(inbound.queue)
           header == << Len(msg) % 256, (Len(msg) \div 256) % 256,
                        (Len(msg) \div 65536) % 256, (Len(msg) \div 16777216) % 256 >>
       IN  inbound' = [inbound EXCEPT !.queue = Tail(@),
                                      !.framed = Append(@, msg),
                                      !.wire = @ \o header \o msg]
    /\ UNCHANGED <<srvVars, cliVars, taskVars, bucketVars, listener, mode>>

\* listener: header := make([]byte, 4); conn.Read(header) returns once
\* n >= 1 bytes are there, n <= 4 as the transport has brought them; the
\* count is dropped and the bytes of header beyond n stay 0. msgSize is
\* binary.LittleEndian.Uint32(header)
ListenerHeader(n) ==
    /\ inbound.at = "header"
    /\ n \in 1..Min(4, Len(inbound.wire))
    /\ LET header == [i \in 1..4 |-> IF i <= n THEN inbound.wire[i] ELSE 0]
       IN  inbound' = [inbound EXCEPT
                          !.at = "body",
                          !.msgSize = header[1] + 256 * header[2]
                                        + 65536 * header[3] + 16777216 * header[4],
                          !.wire = SubSeq(@, n + 1, Len(@))]
    /\ UNCHANGED <<srvVars, cliVars, taskVars, bucketVars, listener, mode>>

\* listener: body := make([]byte, msgSize); conn.Read(body) returns 0 at
\* once for an empty body, and otherwise once n >= 1 bytes are there,
\* n <= msgSize; the count is dropped, so the message is the n bytes read
\* and msgSize - n bytes 0 after them (kept as a number, zeros). A 0 byte is
\* no "|": the message has three parts when the bytes read have, and then
\* it goes to the program, else it is skipped; the loop goes on
ListenerBody(n) ==
    /\ inbound.at = "body"
    /\ IF inbound.msgSize = 0 THEN n = 0
       ELSE n \in 1..Min(inbound.msgSize, Len(inbound.wire))
    /\ LET read == SubSeq(inbound.wire, 1, n)
       IN  inbound' = [inbound EXCEPT
                          !.at = "header",
                          !.wire = SubSeq(@, n + 1, Len(@)),
                          !.got = Append(@, [ body |-> read,
                                              zeros |-> inbound.msgSize - n,
                                              sent |-> Len(SplitN(read, 124, 3)) = 3 ])]
    /\ UNCHANGED <<srvVars, cliVars, taskVars, bucketVars, listener, mode>>

NextStream ==
    \/ WriteFrame
    \/ \E n \in 1..4 : ListenerHeader(n)
    \/ \E n \in 0..Len(inbound.wire) : ListenerBody(n)

SpecStream == InitStream /\ [][NextStream]_vars

(***************************************************************************)
(* the properties                                                          *)
(***************************************************************************)
\* the sessions whose Connect the actor has processed and whose Disconnect
\* it has not
Live(c) == rd[c] \notin {"none", "done"}

\* C1: after every event the actor has processed, the registry has as many
\* entries as there are sessions whose Connect was processed and whose
\* Disconnect was not.
C1_RegistrySize ==
    Cardinality(DOMAIN clients)
        = Cardinality({c \in Sessions : rd[c] # "none"})
            - Cardinality({c \in Sessions : rd[c] = "done"})

\* the state after the step
SNext ==
    [ clients |-> clients', channels |-> channels', heap |-> heap',
      broadcast |-> broadcast', panicked |-> panicked', actorStuck |-> actorStuck',
      Username |-> Username', registered |-> registered', channel |-> channel',
      send |-> send', sendClosed |-> sendClosed', conn |-> conn',
      rd |-> rd', username |-> username', response |-> response', wr |-> wr' ]

\* the step is connection c's command line ln, run by the actor
CommandStep(c, ln) ==
    /\ rd[c] = "read" /\ ActorReady /\ registered[c]
    /\ ln \in Inputs(c)
    /\ ReadCommandLine(c, ln)

\* the frames the step added to c's send channel
Added(c) == SubSeq(send'[c], Len(send[c]) + 1, Len(send'[c]))

\* another live session has the name: as its display name, or as its key
\* in the registry
HeldByOther(n, c) ==
    \E d \in Sessions \ {c} :
        /\ Live(d)
        /\ \/ registered[d] /\ Username[d] = n
           \/ n \in DOMAIN clients /\ clients[n] = d

ValidName(n, c) ==
    /\ n # <<>>
    /\ Len(n) <= 32
    /\ ~HasPrefix(n, Anonymous)
    /\ ~HeldByOther(n, c)

C4_OldNameGone ==
    [][\A c \in Sessions :
         LET old == KeyOf(S, c)
             new == Username'[c]
         IN  rd'[c] # "done" /\ Username'[c] # Username[c] /\ old # new
             => /\ new \in DOMAIN clients' /\ clients'[new] = c
                /\ \A k \in DOMAIN clients' : clients'[k] = c => k = new
                /\ old \notin DOMAIN clients'
                /\ \A d \in Sessions :
                      whisper(<<old, <<"y", "o">>>>, d, SNext)
                          = SendMessage(SNext, d, Notice(<<"User '">> \o old
                                \o <<"' not found or not registered.">>))
      ]_vars

\* a session named a has just changed its name, and the registry has no a
C4_Renamed ==
    \E c \in Sessions :
        /\ send[c] = <<Notice(<<"Your username has been changed to '">> \o IP(3) \o <<"'">>)>>
        /\ IP(3) \in DOMAIN clients /\ clients[IP(3)] = c
        /\ <<"a">> \notin DOMAIN clients

JoinedNotice(name) == Notice(<<"You have joined channel '">> \o name \o <<"'">>)

\* C5: a /join to a registered channel that has a password, with another
\* password or with none, leaves the issuer out of the channel's members and
\* puts no 'has joined the channel' message on the broadcast channel.
C5_WrongPassword ==
    [][\A c \in Sessions : \A ln \in PasswordInputs :
         LET name == ln.args[2]
             password == IF Len(ln.args) > 2 THEN ln.args[3] ELSE <<>>
             o == channels[name]
         IN  /\ Len(ln.args) >= 2 /\ ln.args[1] = <<"j", "o", "i", "n">>
             /\ name \in DOMAIN channels
             /\ heap[o].password # <<>> /\ heap[o].password # password
             /\ CommandStep(c, ln)
             => /\ o \in DOMAIN heap' => c \notin heap'[o].members
                /\ channel'[c] = channel[c]
                /\ \A i \in (Len(broadcast) + 1)..Len(broadcast') :
                      broadcast'[i].Content # HasJoined(Username[c])
                /\ JoinedNotice(name) \notin Range(Added(c))
      ]_vars

\* a join with the password x was refused by channel q, whose password is p
C5_Refused ==
    \E c \in Sessions :
        /\ send[c] = <<Notice(<<"Incorrect password for channel '", "q", "'">>)>>
        /\ <<"q">> \in DOMAIN channels
        /\ heap[channels[<<"q">>]].password = <<"p">>
        /\ c \notin heap[channels[<<"q">>]].members

\* C6: after every event every channel in server.channels has a member, and
\* a channel that lost its last member in the step is no entry of
\* server.channels, so that /channels does not list it.
C6_NoEmptyRoom ==
    /\ [](\A n \in DOMAIN channels : heap[channels[n]].members # {})
    /\ [][\A o \in DOMAIN heap :
            heap[o].members # {} /\ (o \in DOMAIN heap' => heap'[o].members = {})
                => \A n \in DOMAIN channels' : channels'[n] # o
         ]_vars

\* the last member of channel r has left it, and no channel is registered
C6_LastLeft ==
    \E c \in Sessions :
        /\ send[c] = <<Notice(<<"You have left channel '", "r", "'">>)>>
        /\ channels = <<>>

\* a Channel object that has a member, or that a live session is in
LiveRoom(o) ==
    \/ heap[o].members # {}
    \/ \E c \in Sessions : Live(c) /\ channel[c] = o

\* C7: there is at most one live channel per name, so that two sessions whose
\* channels have one name are in one channel.
C7_OneRoomPerName ==
    \A o1, o2 \in DOMAIN heap :
        LiveRoom(o1) /\ LiveRoom(o2) /\ heap[o1].Name = heap[o2].Name => o1 = o2

\* the frame of a message of a client: sender id, sender name and content
\* between '|'
FrameFrom(id, name, content) == id \o <<"|">> \o name \o <<"|">> \o content

\* C8: a line that is no command, sent by a registered member of a channel,
\* goes on the broadcast channel with the sender's id, its name and the line's
\* content; when the actor takes it, every other member of the channel gets
\* exactly one frame with that id, name and content, and the sender and
\* everyone else get none.
C8_FanOut ==
    [][/\ Len(broadcast') = Len(broadcast) + 1
          /\ ~broadcast'[Len(broadcast')].IsServerMsg
          => /\ \E c \in Sessions :
                   /\ registered[c] /\ channel[c] # Nil
                   /\ broadcast' = Append(broadcast,
                         [ SenderID |-> IP(c), SenderName |-> Username[c],
                           Channel |-> channel[c], Content |-> <<"h", "i">>,
                           IsServerMsg |-> FALSE ])
             /\ send' = send
       /\ broadcast # <<>> /\ broadcast' = Tail(broadcast)
          /\ ~Head(broadcast).IsServerMsg
          => LET m == Head(broadcast)
                 members == heap[m.Channel].members
             IN  (\E x \in members : IP(x) = m.SenderID)
                 => \A x \in Sessions :
                       Added(x) = IF x \in members /\ IP(x) # m.SenderID
                                  THEN <<FrameFrom(m.SenderID, m.SenderName, m.Content)>>
                                  ELSE <<>>
      ]_vars

\* connections 2 and 3 both got the frame of a's message, and a got none
C8_Delivered ==
    /\ send[2] = <<FrameFrom(IP(1), <<"a">>, <<"h", "i">>)>>
    /\ send[3] = send[2]
    /\ send[1] = <<>>

\* C9: /whisper <username> <message> puts one private frame on the send
\* channel of the session whose display name is <username>, one confirmation
\* on the issuer's, and nothing anywhere else; when that session is the
\* issuer, or no registered session has the name, the issuer gets one notice
\* and nothing is delivered.
C9_Whisper ==
    [][\A c \in Sessions : \A ln \in NameInputs \cup MemberInputs :
         /\ Len(ln.args) >= 3 /\ ln.args[1] = <<"w", "h", "i", "s", "p", "e", "r">>
         /\ CommandStep(c, ln)
         => LET t == ln.args[2]
                targets == {d \in Sessions : Live(d) /\ registered[d] /\ Username[d] = t}
                private == FrameFrom(<<".">>, <<"DM from ">> \o Username[c],
                                     Join(SubSeq(ln.args, 3, Len(ln.args))))
                sent == Notice(<<"Whisper sent to '">> \o t \o <<"'">>)
            IN  /\ broadcast' = broadcast
                /\ IF targets # {} /\ Username[c] # t
                   THEN \E d \in targets :
                           /\ Added(d) = <<private>>
                           /\ Added(c) = <<sent>>
                           /\ \A x \in Sessions \ {c, d} : Added(x) = <<>>
                   ELSE /\ Len(Added(c)) = 1 /\ Added(c)[1] # sent
                        /\ \A x \in Sessions \ {c} : Added(x) = <<>>
      ]_vars

\* the tokens the line just read found in the bucket
Available == bucket + (IF limited THEN 0 ELSE 1)

\* C10: the tokens a line finds are min(C, previous + R * T), for the bucket's
\* size C, its rate R, the tokens left by the line before and the time T
\* since that line (all in units of 1 / (TicksPerSecond * RateDen) token).
C10_Refill ==
    [][now' = now /\ Len(send'[1]) >= Len(send[1])
         => LET den == TicksPerSecond * RateDen
            IN  Available' * den
                    = Min(maxBucketSize * den, bucket * den + bucketRate * (now - lastRequest))
      ]_vars

\* C11: a line is accepted only if the refilled bucket holds more than 0
\* tokens, and then it costs exactly one token; a line that finds the bucket
\* empty costs no token, puts one rate-limit notice on its sender's send
\* channel and changes nothing else: no username request, no command, no
\* broadcast.
C11_AcceptedCostsOne ==
    [][now' = now /\ Len(send'[1]) >= Len(send[1])
         => IF Refill > 0
            THEN /\ ~limited'
                 /\ bucket' = Refill - 1
                 /\ send' = send
            ELSE /\ limited'
                 /\ bucket' = Refill
                 /\ \E i \in 1..Len(rateLimitMessages) :
                       Added(1) = <<Notice(<<"You are being rate limited. ",
                                            rateLimitMessages[i]>>)>>
                 /\ \A x \in Sessions \ {1} : send'[x] = send[x]
                 /\ UNCHANGED <<srvVars, Username, registered, channel, taskVars>>
      ]_vars

\* a line was accepted, and the next one found the bucket empty
C11_Limited ==
    /\ limited
    /\ bucket = 0
    /\ lastRequest = now /\ now > 0
    /\ Len(send[1]) = 1

\* C12: SendMessage does not block its caller, which goes on to its next
\* line. When the send channel has room the frame is queued behind the frames
\* that wait; when it is full the frame is dropped, the frames that wait stay
\* as they are, and the connection is left alone or closed.
C12_DropOnFull ==
    [][\A c \in Sessions :
         rd[c] = "read" /\ rd'[c] = "read" /\ Len(send'[c]) >= Len(send[c])
         => IF Len(send[c]) < SendCap
            THEN /\ send'[c] = Append(send[c],
                        Notice(<<"Malformed message. Please avoid using the '|' character.">>))
                 /\ conn'[c] = conn[c]
            ELSE /\ send'[c] = send[c]
                 /\ conn'[c] \in {conn[c], "closed"}
      ]_vars

\* a frame was dropped at a full send channel, and the reader goes on
C12_Dropped ==
    /\ Len(send[1]) = SendCap
    /\ conn[1] = "closed"
    /\ rd[1] = "read"

\* C13: the actor never waits inside a handler: not on a send channel, and
\* not on the broadcast channel, which only the actor itself takes from.
C13_ActorNeverWaits == ~actorStuck

\* C16: a reader whose loop has ended (end of stream, read error or read
\* timeout: ReadString returned an error) hands its client to the actor's
\* unregister case once, after which the connection is closed and the
\* client is under no key of the registry; and it is never left waiting for
\* an actor that takes no event any more, so that it is removed eventually.
C16_ReaderEndUnregisters ==
    /\ [][\A c \in Sessions :
            /\ rd[c] = "exit" => rd'[c] \in {"exit", "done"}
            /\ rd[c] = "done" => rd'[c] = "done"
            /\ rd[c] = "exit" /\ rd'[c] = "done"
                  => conn'[c] = "closed" /\ c \notin Range(clients')
         ]_vars
    /\ [](\A c \in Sessions : rd[c] = "exit" => ~actorStuck /\ ~panicked)

\* C14: after the signal the listener is closed, and eventually every
\* session has been unregistered, the registry is empty and the process has
\* come to the end of Start alive.
C14_GracefulShutdown ==
    (listener = "closed")
        ~> (/\ ~panicked
            /\ \A c \in Sessions : rd[c] \in {"none", "done"}
            /\ clients = <<>>)

\* C17: the frames of a session are written in the order they were queued:
\* a step leaves a send channel as it is, or queues frames behind the frames
\* that wait, or writes the frame that has waited longest; no frame is written
\* before one that was queued earlier.
C17_Fifo ==
    [][\A c \in Sessions :
         \/ send'[c] = send[c]
         \/ /\ Len(send'[c]) > Len(send[c])
            /\ SubSeq(send'[c], 1, Len(send[c])) = send[c]
         \/ /\ send[c] # <<>>
            /\ send'[c] = Tail(send[c])
      ]_vars

\* the notice of the username has been written, and two frames queued after
\* it wait in the order they were queued
C17_InOrder ==
    /\ registered[1]
    /\ send[1] = << Notice(<<"You are not in a channel. Use /join <channel> to join one.">>),
                    Notice(<<"No command provided.">>) >>

\* the number of ch in s
RECURSIVE Count(_, _)
Count(s, ch) ==
    IF s = <<>> THEN 0 ELSE (IF Head(s) = ch THEN 1 ELSE 0) + Count(Tail(s), ch)

\* C18 as claimed: the payload made from any sender id and sender name
\* without '|', the empty ones included, and any content decodes to these
\* three values.
C18_RoundTripAll ==
    [][/\ inbound.at = "framed"
       /\ ~Contains(inbound.id, "|") /\ ~Contains(inbound.name, "|")
       => /\ inbound'.at = "sent"
          /\ inbound'.parts = <<inbound.id, inbound.name, inbound.content>>
      ]_vars

\* C18: the payload made from a sender id and a sender name that are not
\* empty and hold no '|', and any content, decodes (a split at the first two
\* '|') to these three values; a payload with fewer than two '|' is skipped
\* and the listener goes on.
C18_RoundTrip ==
    [][/\ /\ inbound.at = "framed"
          /\ inbound.id # <<>> /\ inbound.name # <<>>
          /\ ~Contains(inbound.id, "|") /\ ~Contains(inbound.name, "|")
          => /\ inbound'.at = "sent"
             /\ inbound'.parts = <<inbound.id, inbound.name, inbound.content>>
       /\ /\ inbound.at \in {"framed", "raw"}
          /\ Count(inbound.body, "|") < 2
          => /\ inbound'.at = "skipped"
             /\ inbound'.parts = <<>>
      ]_vars

\* "u1", "Alice" and "hello" were encoded, and decoded to themselves
C18_Decoded ==
    /\ inbound.at = "sent"
    /\ inbound.id = <<"u", "1">>
    /\ inbound.body = <<"u", "1", "|", "A", "l", "i", "c", "e", "|", "h", "e", "l", "l", "o">>
    /\ inbound.parts = <<inbound.id, <<"A", "l", "i", "c", "e">>, <<"h", "e", "l", "l", "o">>>>

NothingMutated ==
    /\ clients' = clients
    /\ Username' = Username
    /\ registered' = registered
    /\ channel' = channel
    /\ channels' = channels
    /\ heap' = heap
    /\ broadcast' = broadcast

\* C21: a name change that is rejected, asked for by a first line or by
\* /name, changes nothing: the keys of the registry, the client's username,
\* its registered flag and the members of every channel are as before, and
\* the one effect is the notice of the rejection on the issuer's send channel.
C21_RejectedChangesNothing ==
    [][\A c \in Sessions :
         /\ rd[c] = "read" /\ rd'[c] = "resp" /\ response'[c] # "nil"
               => NothingMutated /\ send' = send
         /\ rd[c] = "resp" /\ rd'[c] = "read" /\ response[c] # "nil"
               => /\ NothingMutated
                  /\ Added(c) = <<Notice(<<"Failed to set username: ", response[c]>>)>>
                  /\ \A x \in Sessions \ {c} : send'[x] = send[x]
         /\ \A ln \in NameInputs \cup OtherInputs :
               /\ Len(ln.args) >= 2 /\ ln.args[1] = <<"n", "a", "m", "e">>
               /\ changeUsernameErr(S, c, ln.args[2]) # "nil"
               /\ CommandStep(c, ln)
               => /\ NothingMutated
                  /\ Added(c) = <<Notice(<<"Failed to change username: ",
                                           changeUsernameErr(S, c, ln.args[2])>>)>>
                  /\ \A x \in Sessions \ {c} : send'[x] = send[x]
      ]_vars

\* a first line with a name another session holds was rejected, and the
\* client is still not registered and under its peer address
C21_Rejected ==
    \E c \in Sessions :
        /\ send[c] = <<Notice(<<"Failed to set username: ", "username is already taken">>)>>
        /\ ~registered[c] /\ rd[c] = "read"
        /\ Username[c] = Anonymous
        /\ IP(c) \in DOMAIN clients /\ clients[IP(c)] = c

\* the Channel objects that have c as a member
RoomsOf(h, c) == {o \in DOMAIN h : c \in h[o].members}

\* C22: a client is a member of at most one channel at any time; a /join that
\* succeeds for a channel B, sent by a member of another channel A, takes the
\* client out of A, queues the 'has left the channel' message for A before
\* the 'has joined the channel' message for B, takes A out of server.channels
\* if A has no member left, and leaves the client a member of B only.
C22_OneRoomAtATime ==
    /\ [](\A c \in Sessions : Cardinality(RoomsOf(heap, c)) <= 1)
    /\ [][\A c \in Sessions : \A ln \in ChannelInputs \cup PasswordInputs \cup MemberInputs :
            LET A == channel[c]
                B == channel'[c]
                name == ln.args[2]
            IN  /\ Len(ln.args) >= 2 /\ ln.args[1] = <<"j", "o", "i", "n">>
                /\ A # Nil /\ c \in heap[A].members
                /\ CommandStep(c, ln)
                /\ JoinedNotice(name) \in Range(Added(c))
                /\ B # A
                => /\ RoomsOf(heap', c) = {B}
                   /\ heap'[B].Name = name
                   /\ A \in DOMAIN heap' /\ heap'[A].members = heap[A].members \ {c}
                   /\ heap[A].members = {c} => A \notin Range(channels')
                   /\ broadcast' = broadcast \o
                         << [ SenderName |-> Username[c], SenderID |-> ID(c),
                              Channel |-> A, Content |-> HasLeft(Username[c]),
                              IsServerMsg |-> TRUE ],
                            [ SenderName |-> Username[c], SenderID |-> ID(c),
                              Channel |-> B, Content |-> HasJoined(Username[c]),
                              IsServerMsg |-> TRUE ] >>
         ]_vars

\* a member of channel r has joined channel q: it is in q only, another
\* client is still in r, and the two messages wait in their order
C22_Moved ==
    \E c \in Sessions :
        /\ send[c] = <<JoinedNotice(<<"q">>)>>
        /\ Len(broadcast) = 2
        /\ broadcast[1].Content = HasLeft(Username[c])
        /\ heap[broadcast[1].Channel].Name = <<"r">>
        /\ heap[broadcast[1].Channel].members # {}
        /\ broadcast[2].Content = HasJoined(Username[c])
        /\ RoomsOf(heap, c) = {channels[<<"q">>]}

\* the member map of every Channel object
Members == [o \in DOMAIN heap |-> heap[o].members]

\* C23: the registry, server.channels and the member maps change only in a
\* step the actor takes at its select: its register, unregister, setUsername,
\* command and broadcast cases. The steps a reader, a writer, the accept loop
\* and the signal handler take alone leave them as they are; these tasks
\* reach the actor only through its channels.
C23_OnlyTheActor ==
    [][clients' # clients \/ channels' # channels \/ Members' # Members
         => /\ ActorReady
            /\ \/ \E c \in Sessions :
                     Register(c) \/ Unregister(c) \/ ReadUsername(c) \/ ReadCommand(c)
               \/ Broadcast
      ]_vars

\* a reader has ended and the signal has come while its client is in the
\* registry and in a channel: neither task has touched them
C23_Untouched ==
    \E c \in Sessions :
        /\ rd[c] = "exit"
        /\ listener = "closed"
        /\ c \in Range(clients)
        /\ RoomsOf(heap, c) # {}

\* C24: when the actor takes a client's message from the broadcast channel,
\* every frame it sends carries the name the sender has at that time, not the
\* name it had when the message was queued.
C24_NameAtFanOut ==
    [][\A c \in Sessions :
         /\ broadcast # <<>> /\ broadcast' = Tail(broadcast)
         /\ ~Head(broadcast).IsServerMsg
         /\ Live(c) /\ ID(c) = Head(broadcast).SenderID
         => \A x \in Sessions : \A i \in 1..Len(Added(x)) :
               Added(x)[i] = FrameFrom(ID(c), Username[c], Head(broadcast).Content)
      ]_vars

C26_OnlyRegistration ==
    /\ [](\A c \in Sessions :
            Live(c) /\ ~registered[c] => channel[c] = Nil /\ RoomsOf(heap, c) = {})
    /\ [][\A c \in Sessions :
            ~registered[c] /\ rd[c] = "read" /\ rd'[c] = "resp"
            => /\ \E ln \in RegInputs(c) :
                     ~ln.pipe /\ username'[c] = FirstField(ln.text)
               /\ broadcast' = broadcast
               /\ channels' = channels /\ heap' = heap /\ channel' = channel
               /\ send' = send
         ]_vars

Malformed == Notice(<<"Malformed message. Please avoid using the '|' character.">>)

\* C27: a line with a '|' gets the notice and goes no further: the step that
\* answers it asks for no username, runs no command and queues no message.
\* So no '|' of a user is in a username, a registry key, a channel's name or
\* password or a queued message, and every frame has the two '|' of
\* formatMessage and no other.
C27_PipeRejected ==
    /\ [](/\ \A c \in Sessions : ~Contains(Username[c], "|") /\ ~Contains(username[c], "|")
          /\ \A k \in DOMAIN clients : ~Contains(k, "|")
          /\ \A n \in DOMAIN channels : ~Contains(n, "|")
          /\ \A o \in DOMAIN heap :
                ~Contains(heap[o].Name, "|") /\ ~Contains(heap[o].password, "|")
          /\ \A i \in 1..Len(broadcast) :
                ~Contains(broadcast[i].Content, "|") /\ ~Contains(broadcast[i].SenderName, "|")
          /\ \A c \in Sessions : \A i \in 1..Len(send[c]) : Count(send[c][i], "|") = 2)
    /\ [][\A c \in Sessions :
            Added(c) = <<Malformed>>
            => /\ NothingMutated
               /\ UNCHANGED taskVars
               /\ \A x \in Sessions \ {c} : send'[x] = send[x]
         ]_vars

\* the first line of a client had a '|': the client has the notice, and it
\* is still not registered and has asked for no username
C27_Refused ==
    \E c \in Sessions :
        /\ send[c] = <<Malformed>>
        /\ ~registered[c] /\ rd[c] = "read"
        /\ Username[c] = Anonymous /\ username[c] = <<>>

C28_Disconnected ==
    \E c \in Sessions :
        /\ wr[c] = "done" /\ rd[c] = "done"
        /\ conn[c] = "closed" /\ sendClosed[c]
        /\ c \notin Range(clients)

\* C29: the bucket is refilled for the time since the line accepted last: a
\* line that is rate limited leaves lastRequest as it was, so that a client
\* that goes on sending while it is limited is accepted again as soon as the
\* rate times the time since its last accepted line is a whole token.
C29_ClockOfAcceptedLines ==
    [][now' = now /\ Len(send'[1]) >= Len(send[1]) /\ limited'
         => lastRequest' = lastRequest
      ]_vars

\* C30: after every event the channel a client holds and the member maps
\* agree: a live client holds channel o if and only if it is a member of o.
\* This is so after a /join that was refused for its password, too.
C30_RoomMatchesMembership ==
    \A c \in Sessions : \A o \in DOMAIN heap :
        Live(c) => (channel[c] = o <=> c \in heap[o].members)

\* C31: after every event every Channel object that has a member is the
\* entry of server.channels under its own name: a /join, a /leave or an
\* unregister takes out of server.channels only the channel it has emptied.
C31_MemberRoomsRegistered ==
    \A o \in DOMAIN heap :
        heap[o].members # {}
            => heap[o].Name \in DOMAIN channels /\ channels[heap[o].Name] = o

C33_BucketInRange ==
    /\ [](0 <= bucket /\ bucket <= maxBucketSize)
    /\ [][lastRequest = 0 - Long /\ now' = now /\ Len(send'[1]) >= Len(send[1])
            => /\ Refill = maxBucketSize
               /\ ~limited'
               /\ bucket' = maxBucketSize - 1
               /\ send' = send
         ]_vars

\* the first line of a client with the largest bucket has been accepted
C33_FirstAccepted ==
    /\ lastRequest = now
    /\ ~limited
    /\ maxBucketSize = MaxBucket
    /\ bucket = MaxBucket - 1

\* C34: whatever the transport brings at each read, the messages the
\* listener has read are, in their order, the payloads the server has
\* framed: none is cut short, none is made of bytes of a header or of
\* another frame.
C34_StreamDecoded ==
    mode = "stream" =>
        /\ Len(inbound.got) <= Len(inbound.framed)
        /\ \A i \in 1..Len(inbound.got) :
              /\ inbound.got[i].zeros = 0
              /\ inbound.got[i].body = inbound.framed[i]

\* C3: no two live sessions share a registry key or a display name: every
\* live session keeps a registry entry of its own (no connect or name change
\* overwrites it), and no two registered live sessions have one display name.
C3_UniqueKeys ==
    /\ \A c \in Sessions : Live(c) => \E k \in DOMAIN clients : clients[k] = c
    /\ \A c, d \in Sessions :
          Live(c) /\ Live(d) /\ registered[c] /\ registered[d] /\ c # d
              => Username[c] # Username[d]

====
